---- MODULE Spec2Model ----
(***************************************************************************)
(* Model of the multi-agent file processor:                                *)
(*   - the process supervisor (src/bin/6_agent_launcher.rs): main's        *)
(*     start-up sequence, control loop and shutdown path, spawn_agent and  *)
(*     the per-process waiter task it starts;                              *)
(*   - the request loops of the agents (src/bin/1_file_explorer.rs,        *)
(*     2_metadata_extractor.rs, 3_summarizer.rs, 5_llm_gateway.rs) over a  *)
(*     publish/subscribe bus.                                              *)
(***************************************************************************)
EXTENDS Naturals, Integers, Sequences, FiniteSets, TLC

(***************************************************************************)
(* Bounds of the model.                                                    *)
(***************************************************************************)
\* Number of times processes may terminate on their own in one run.
MaxExits == 2

\* Process identifiers the OS has beyond one per enabled agent.
SparePids == 0

\* Number of requests the clients publish on the bus in one run.
MaxRequests == 2

\* Number of lines a process writes on one output stream in one run.
MaxLines == 2

\* Capacity of the lifecycle-event channel, mpsc::channel(100).
ChanCap == 100

(***************************************************************************)
(* Supervisor: configuration (config.toml, LauncherConfig.agents).         *)
(***************************************************************************)
\* RestartPolicy
Never == "never"
OnFailure == "on_failure"
Always == "always"

\* AgentConfig { name, bin, enabled, restart }; bin is determined by name.
AgentConfig(n, e, r) == [name |-> n, enabled |-> e, restart |-> r]

\* The configurations a run may be started with: agent names are unique in
\* each; between them they hold every restart policy, a disabled agent and
\* the configuration with nothing enabled.
Configs ==
    { << AgentConfig("A", TRUE, Always), AgentConfig("D", FALSE, Always),
         AgentConfig("B", TRUE, OnFailure) >>,
      << AgentConfig("C", TRUE, Never), AgentConfig("A", TRUE, Always) >>,
      << AgentConfig("D", FALSE, Always) >> }

VARIABLES
    config,      \* LauncherConfig.agents, loaded once
    pc,          \* position of main: "startup","loop","shutdown","done","error"
    startIdx,    \* next element of config.agents the start-up loop looks at
    agents,      \* Vec<ManagedAgent>: sequence of [name, restart, id, proc]
    procs,       \* every OS process spawned so far, by handle
    chan,        \* lifecycle-event channel (tx -> rx), FIFO
    sig,         \* the ctrl_c() future of the current select! has been notified
    sigSent,     \* the operator has delivered a signal (Ctrl+C)
    sigObserved, \* the control loop took the ctrl_c branch
    killIdx,     \* next element of agents the shutdown loop looks at
    exits,       \* number of processes that terminated on their own
    spawnCalls,  \* per agent name: calls of spawn_agent
    handled,     \* per agent name: lifecycle events handled by the loop
    respawned    \* handles of the processes whose event led to a respawn call

supVars == << config, pc, startIdx, agents, procs, chan, sig, sigSent, sigObserved,
              killIdx, exits, spawnCalls, handled, respawned >>

VARIABLES
    alive,       \* per agent: its main is in its request loop, subscribed
    subq,        \* per request subscription: messages delivered and not yet taken
    nreq,        \* number of requests the clients have published
    wantReply,   \* requests published with a reply destination
    malformed,   \* requests whose payload cannot be deserialized
    hst,         \* per request: how far its handling has got
    replies,     \* per reply destination: envelopes the agents published to it, in order
    gtask,       \* gateway: the tasks spawned for completion requests
    stask,       \* summarizer: per request, position of the task spawned for it
    sresult,     \* summarizer: per request, how process_file ended
    inboxOpen,   \* summarizer: the reply subscriptions that exist
    inbox,       \* summarizer: per call, replies delivered to its subscription
    stext,       \* summarizer: per request, the value or message process_file returned
    sconn,       \* summarizer: its connection to the bus is open
    takers,      \* per request: the agents that took it from a subscription
    tornDown,    \* requests the gateway held when its connection was torn down
    everSub      \* summarizer: the calls whose reply subscription was established

busVars == << alive, subq, nreq, wantReply, malformed, hst, replies, gtask,
              stask, sresult, inboxOpen, inbox, stext, sconn, takers, tornDown,
              everSub >>

VARIABLES
    gstate,      \* gateway: LlmConfigState
    gflight,     \* gateway: the requests taken and not yet served, each with its snapshot
    gserved,     \* gateway: the request served last and how (<< >> before any)
    gmsgs,       \* gateway: configuration messages and requests taken
    glast,       \* per field: the value of the latest valid update that supplied it
    gcfg         \* the configuration message taken last (<< >> before any)

gwVars == << gstate, gflight, gserved, gmsgs, glast, gcfg >>

VARIABLES
    pipe,        \* per output stream of a process: lines written and not yet read
    wopen,       \* per output stream: the process still has it open
    nlines,      \* per output stream: lines written so far
    reader,      \* per output stream: its reader task, "reading" or "stopped"
    log          \* the log sink: entries in the order they were logged

rdVars == << pipe, wopen, nlines, reader, log >>

VARIABLES
    creq         \* interactive client: per topic, how its latest request stands

clVars == << creq >>

auxVars == << gwVars, rdVars, clVars >>

vars == << supVars, busVars, auxVars >>

Names == {"A", "B", "C", "D"}

Enabled(cfg) == { i \in 1..Len(cfg) : cfg[i].enabled }
NumEnabled == Cardinality(Enabled(config))

\* The OS process identifiers.
PIDs == 1..(NumEnabled + SparePids)

\* Identifiers the OS cannot hand out: those of processes not yet reaped.
UsedPids == { procs[p].pid : p \in { q \in 1..Len(procs) : procs[q].st # "reaped" } }

RuntimeAlive == pc \notin {"done", "error"}

(***************************************************************************)
(* spawn_agent: the child process, its ManagedAgent and its waiter task.   *)
(***************************************************************************)
\* The process record of a child just spawned with identifier pid.
NewProc(cfg, pid) ==
    [name |-> cfg.name, restart |-> cfg.restart, pid |-> pid,
     st |-> "running", status |-> "none", waiter |-> "start"]

\* ManagedAgent { config, child, id }
ManagedAgent(cfg, pid, handle) ==
    [name |-> cfg.name, restart |-> cfg.restart, id |-> pid, proc |-> handle]

(***************************************************************************)
(* main: start-up.                                                         *)
(***************************************************************************)
SupInit ==
    /\ config \in Configs
    /\ pc = "startup"
    /\ startIdx = 1
    /\ agents = << >>
    /\ procs = << >>
    /\ chan = << >>
    /\ sig = FALSE
    /\ sigSent = FALSE
    /\ sigObserved = FALSE
    /\ killIdx = 1
    /\ exits = 0
    /\ spawnCalls = [n \in Names |-> 0]
    /\ handled = [n \in Names |-> 0]
    /\ respawned = {}

\* Variant of StartupNext that gives up on an agent whose spawn fails and
\* goes on with the next one.
StartupNextSkipsFailed ==
    /\ pc = "startup"
    /\ startIdx <= Len(config)
    /\ LET cfg == config[startIdx] IN
         IF ~cfg.enabled
         THEN /\ startIdx' = startIdx + 1
              /\ UNCHANGED << pc, agents, procs, spawnCalls >>
         ELSE /\ spawnCalls' = [spawnCalls EXCEPT ![cfg.name] = @ + 1]
              /\ \/ \E pid \in PIDs \ UsedPids :
                       /\ procs' = Append(procs, NewProc(cfg, pid))
                       /\ agents' = Append(agents, ManagedAgent(cfg, pid, Len(procs) + 1))
                       /\ startIdx' = startIdx + 1
                       /\ pc' = pc
                 \/ /\ startIdx' = startIdx + 1
                    /\ UNCHANGED << pc, procs, agents >>
    /\ UNCHANGED << busVars, auxVars, config, chan, sig, sigSent, sigObserved, killIdx, exits, handled, respawned >>

\* Variant of StartupNext whose loop lacks the `filter(|a| a.enabled)`.
StartupNextUnfiltered ==
    /\ pc = "startup"
    /\ startIdx <= Len(config)
    /\ LET cfg == config[startIdx] IN
         /\ spawnCalls' = [spawnCalls EXCEPT ![cfg.name] = @ + 1]
         /\ \/ \E pid \in PIDs \ UsedPids :
                  /\ procs' = Append(procs, NewProc(cfg, pid))
                  /\ agents' = Append(agents, ManagedAgent(cfg, pid, Len(procs) + 1))
                  /\ startIdx' = startIdx + 1
                  /\ pc' = pc
            \/ /\ pc' = "error"
               /\ UNCHANGED << procs, agents, startIdx >>
    /\ UNCHANGED << busVars, auxVars, config, chan, sig, sigSent, sigObserved, killIdx, exits, handled, respawned >>

\* One pass of `for agent_config in config.agents.into_iter().filter(|a| a.enabled)`:
\* a disabled descriptor is skipped; an enabled one is spawned, and a failed
\* spawn leaves main through `?`.
StartupNext ==
    /\ pc = "startup"
    /\ startIdx <= Len(config)
    /\ LET cfg == config[startIdx] IN
         IF ~cfg.enabled
         THEN /\ startIdx' = startIdx + 1
              /\ UNCHANGED << pc, agents, procs, spawnCalls >>
         ELSE /\ spawnCalls' = [spawnCalls EXCEPT ![cfg.name] = @ + 1]
              /\ \/ \E pid \in PIDs \ UsedPids :
                       /\ procs' = Append(procs, NewProc(cfg, pid))
                       /\ agents' = Append(agents, ManagedAgent(cfg, pid, Len(procs) + 1))
                       /\ startIdx' = startIdx + 1
                       /\ pc' = pc
                 \/ /\ pc' = "error"
                    /\ UNCHANGED << procs, agents, startIdx >>
    /\ UNCHANGED << busVars, auxVars, config, chan, sig, sigSent, sigObserved, killIdx, exits, handled, respawned >>

\* `if agents.is_empty() { return Ok(()) }`, otherwise the control loop starts.
StartupDone ==
    /\ pc = "startup"
    /\ startIdx > Len(config)
    /\ pc' = IF agents = << >> THEN "done" ELSE "loop"
    /\ UNCHANGED << busVars, auxVars, config, startIdx, agents, procs, chan, sig, sigSent, sigObserved,
                    killIdx, exits, spawnCalls, handled, respawned >>

(***************************************************************************)
(* The environment: the operator and the managed processes.                *)
(***************************************************************************)
\* Ctrl+C is delivered (once in a run) while the control loop is selecting:
\* the ctrl_c() future of that select! is notified.
OperatorSignal ==
    /\ pc = "loop"
    /\ ~sigSent
    /\ sig' = TRUE
    /\ sigSent' = TRUE
    /\ UNCHANGED << busVars, auxVars, config, pc, startIdx, agents, procs, chan, sigObserved,
                    killIdx, exits, spawnCalls, handled, respawned >>

\* A running process terminates on its own (or is killed from outside) with
\* exit status s; it stays unreaped until somebody waits for it.
ProcExit(p, s) ==
    /\ RuntimeAlive
    /\ procs[p].st = "running"
    /\ exits < MaxExits
    /\ procs' = [procs EXCEPT ![p].st = "zombie", ![p].status = s]
    /\ exits' = exits + 1
    /\ UNCHANGED << busVars, auxVars, config, pc, startIdx, agents, chan, sig, sigSent, sigObserved,
                    killIdx, spawnCalls, handled, respawned >>

(***************************************************************************)
(* The waiter task of spawn_agent (one per process).                       *)
(***************************************************************************)
\* `child_for_monitor.lock().await`: the waiter takes the handle's mutex.  It
\* holds it exactly while its position is "waiting".
Locked(p) == procs[p].waiter = "waiting"

WaiterLock(p) ==
    /\ RuntimeAlive
    /\ procs[p].waiter = "start"
    /\ procs' = [procs EXCEPT ![p].waiter = "waiting"]
    /\ UNCHANGED << busVars, auxVars, config, pc, startIdx, agents, chan, sig, sigSent, sigObserved,
                    killIdx, exits, spawnCalls, handled, respawned >>

\* `ch.wait().await` returns once the process has terminated; that reaps it
\* (its identifier is free again) and the guard is dropped at the block's end.
WaiterReap(p) ==
    /\ RuntimeAlive
    /\ procs[p].waiter = "waiting"
    /\ procs[p].st # "running"
    /\ procs' = [procs EXCEPT ![p].st = "reaped", ![p].waiter = "send"]
    /\ UNCHANGED << busVars, auxVars, config, pc, startIdx, agents, chan, sig, sigSent, sigObserved,
                    killIdx, exits, spawnCalls, handled, respawned >>

\* Variant of Event whose descriptor does not keep the restart policy the
\* process was spawned with.
EventAlways(p) ==
    [id |-> procs[p].pid, name |-> procs[p].name, restart |-> Always,
     proc |-> p]

\* The lifecycle event (id, monitor_config) of process p; proc is the handle
\* of the emitting process, which the control loop never reads.
Event(p) ==
    [id |-> procs[p].pid, name |-> procs[p].name, restart |-> procs[p].restart,
     proc |-> p]

\* Variant of WaiterSend whose task does not wait for the process to
\* terminate before it emits the event.
WaiterSendEarly(p) ==
    /\ RuntimeAlive
    /\ procs[p].waiter \in {"waiting", "send"}
    /\ Len(chan) < ChanCap
    /\ chan' = Append(chan, Event(p))
    /\ procs' = [procs EXCEPT ![p].waiter = "done"]
    /\ UNCHANGED << busVars, auxVars, config, pc, startIdx, agents, sig, sigSent, sigObserved,
                    killIdx, exits, spawnCalls, handled, respawned >>

\* `tx.send((id, monitor_config)).await`
WaiterSend(p) ==
    /\ RuntimeAlive
    /\ procs[p].waiter = "send"
    /\ Len(chan) < ChanCap
    /\ chan' = Append(chan, Event(p))
    /\ procs' = [procs EXCEPT ![p].waiter = "done"]
    /\ UNCHANGED << busVars, auxVars, config, pc, startIdx, agents, sig, sigSent, sigObserved,
                    killIdx, exits, spawnCalls, handled, respawned >>

(***************************************************************************)
(* main: the control loop.                                                 *)
(***************************************************************************)
\* Variant of LoopSignal that notes the signal and goes on looping.
LoopSignalKeepsLooping ==
    /\ pc = "loop"
    /\ sig
    /\ sigObserved' = TRUE
    /\ pc' = "loop"
    /\ killIdx' = 1
    /\ UNCHANGED << busVars, auxVars, config, startIdx, agents, procs, chan, sig, sigSent, exits,
                    spawnCalls, handled, respawned >>

\* The ctrl_c branch of select!: break.
LoopSignal ==
    /\ pc = "loop"
    /\ sig
    /\ sigObserved' = TRUE
    /\ pc' = "shutdown"
    /\ killIdx' = 1
    /\ UNCHANGED << busVars, auxVars, config, startIdx, agents, procs, chan, sig, sigSent, exits,
                    spawnCalls, handled, respawned >>

\* Variant of Retain that forgets to remove the entry of the exited process.
RetainAll(ags, id) == ags

\* `agents.retain(|a| a.id != id)`
Retain(ags, id) == SelectSeq(ags, LAMBDA a : a.id # id)

\* Variant of ShouldRestart that restarts only OnFailure agents.
ShouldRestartOnFailureOnly(cfg) == cfg.restart = OnFailure

\* Variant of ShouldRestart that ignores the policy.
ShouldRestartAny(cfg) == TRUE

\* `if config.restart != RestartPolicy::Never`
ShouldRestart(cfg) == cfg.restart # Never

\* Variant of LoopEvent whose handler first takes the mutex of every managed
\* child.
LoopEventLocksAll ==
    /\ pc = "loop"
    /\ chan # << >>
    /\ \A i \in 1..Len(agents) : ~Locked(agents[i].proc)
    /\ LET ev == Head(chan)
           kept == Retain(agents, ev.id)
       IN
         /\ chan' = Tail(chan)
         /\ handled' = [handled EXCEPT ![ev.name] = @ + 1]
         /\ IF ShouldRestart(ev)
            THEN /\ spawnCalls' = [spawnCalls EXCEPT ![ev.name] = @ + 1]
                 /\ respawned' = respawned \cup {ev.proc}
                 /\ killIdx' = killIdx
                 /\ \/ \E pid \in PIDs \ UsedPids :
                          /\ procs' = Append(procs, NewProc(ev, pid))
                          /\ agents' = Append(kept, ManagedAgent(ev, pid, Len(procs) + 1))
                          /\ pc' = "loop"
                    \/ /\ agents' = kept
                       /\ pc' = "error"
                       /\ procs' = procs
            ELSE /\ agents' = kept
                 /\ pc' = IF kept = << >> THEN "shutdown" ELSE "loop"
                 /\ killIdx' = 1
                 /\ UNCHANGED << procs, spawnCalls, respawned >>
    /\ sig' = FALSE
    /\ sigSent' \in {sigSent, TRUE}
    /\ UNCHANGED << busVars, auxVars, config, startIdx, sigObserved, exits >>

\* The rx.recv() branch of select!: the whole handler of one lifecycle event.
\* The ctrl_c() future of this select! is dropped with whatever notification
\* it held, and the next turn of the loop makes a new one, which hears only
\* signals delivered after it was made; Ctrl+C may also be delivered while
\* the handler runs, when no such future exists.
LoopEvent ==
    /\ pc = "loop"
    /\ chan # << >>
    /\ LET ev == Head(chan)
           kept == Retain(agents, ev.id)
       IN
         /\ chan' = Tail(chan)
         /\ handled' = [handled EXCEPT ![ev.name] = @ + 1]
         /\ IF ShouldRestart(ev)
            THEN /\ spawnCalls' = [spawnCalls EXCEPT ![ev.name] = @ + 1]
                 /\ respawned' = respawned \cup {ev.proc}
                 /\ killIdx' = killIdx
                 /\ \/ \E pid \in PIDs \ UsedPids :
                          /\ procs' = Append(procs, NewProc(ev, pid))
                          /\ agents' = Append(kept, ManagedAgent(ev, pid, Len(procs) + 1))
                          /\ pc' = "loop"
                    \/ /\ agents' = kept
                       /\ pc' = "error"
                       /\ procs' = procs
            ELSE /\ agents' = kept
                 /\ pc' = IF kept = << >> THEN "shutdown" ELSE "loop"
                 /\ killIdx' = 1
                 /\ UNCHANGED << procs, spawnCalls, respawned >>
    /\ sig' = FALSE
    /\ sigSent' \in {sigSent, TRUE}
    /\ UNCHANGED << busVars, auxVars, config, startIdx, sigObserved, exits >>

(***************************************************************************)
(* main: shutdown.                                                         *)
(***************************************************************************)
\* Variant of KillChild that takes the lock but never signals the child.
KillChildSkipped(pr) == pr

\* `ch.kill().await`: SIGKILL and wait.  A process that is still running is
\* terminated and reaped; one that already terminated is reaped; for one
\* already reaped the call changes nothing (its error is only logged).
KillChild(pr) ==
    IF pr.st = "reaped" THEN pr
    ELSE [pr EXCEPT !.st = "reaped",
                    !.status = IF pr.st = "running" THEN "killed" ELSE @]

\* One pass of `for agent in &mut agents`: `agent.child.lock().await` waits
\* for the handle's mutex, then the child is killed and the guard dropped.
ShutdownNext ==
    /\ pc = "shutdown"
    /\ killIdx <= Len(agents)
    /\ LET p == agents[killIdx].proc IN
         /\ ~Locked(p)
         /\ procs' = [procs EXCEPT ![p] = KillChild(@)]
    /\ killIdx' = killIdx + 1
    /\ UNCHANGED << busVars, auxVars, config, pc, startIdx, agents, chan, sig, sigSent, sigObserved,
                    exits, spawnCalls, handled, respawned >>

\* "Agent Launcher finalizado."; Ok(())
ShutdownDone ==
    /\ pc = "shutdown"
    /\ killIdx > Len(agents)
    /\ pc' = "done"
    /\ UNCHANGED << busVars, auxVars, config, startIdx, agents, procs, chan, sig, sigSent, sigObserved,
                    killIdx, exits, spawnCalls, handled, respawned >>

(***************************************************************************)
(* The bus and the agents' request loops.                                  *)
(***************************************************************************)
ListTopic == "files.list.request"
ContentTopic == "file.request.content"
MetadataTopic == "metadata.request"
SummaryTopic == "summary.request"
CompletionTopic == "mcp.request.completion"

Topics == {ListTopic, ContentTopic, MetadataTopic, SummaryTopic, CompletionTopic}

\* The agent processes on the bus; "metadata2" is a second instance of the
\* metadata extractor, which may be started in the course of a run.
AgentNames == {"explorer", "metadata", "metadata2", "summarizer", "gateway"}

\* The topics an agent's main subscribes to (client.subscribe, no queue group).
TopicsOf(a) ==
    CASE a = "explorer" -> {ListTopic, ContentTopic}
      [] a \in {"metadata", "metadata2"} -> {MetadataTopic}
      [] a = "summarizer" -> {SummaryTopic}
      [] a = "gateway" -> {CompletionTopic}

\* The request subscriptions: one per agent and topic it subscribes to.
Subs == UNION { { << a, t >> : t \in TopicsOf(a) } : a \in AgentNames }

\* The agent is running with its connection to the bus up.
Connected(a) == alive[a] /\ (a = "summarizer" => sconn)

\* A request is named by its reply destination: the inbox of the client that
\* published it, or the inbox process_file made for its call to the gateway.
ReqIds == {"client", "inbox"} \X (1..MaxRequests)

\* `client.new_inbox()`: the reply destination of call r, fresh for each call.
InboxOf(r) == r

\* A message on a request topic.
Message(id, wf, rp) == [id |-> id, wf |-> wf, reply |-> rp]

\* AgentResponse<T>: the variant an outcome is wrapped in.
Envelope(ok) == IF ok THEN "Success" ELSE "Error"

\* AgentResponse::Success(value) / AgentResponse::Error(message); values and
\* messages are sequences of text pieces.
Response(ok, text) == [kind |-> Envelope(ok), text |-> text]

\* What the format!() of an agent that answers from its loop puts before the
\* cause of its failure.
ErrPrefix(t) ==
    CASE t = ListTopic -> "Error del explorador al escanear: "
      [] t = ContentTopic -> "No se pudo leer '{path}': "
      [] t = MetadataTopic -> "Error al obtener metadatos: "

\* The value or the error message such an agent answers with.
WorkText(t, ok) == IF ok THEN << "result" >> ELSE << ErrPrefix(t), "io error" >>

BusInit ==
    /\ alive = [a \in AgentNames |-> a # "metadata2"]
    /\ subq = [s \in Subs |-> << >>]
    /\ nreq = 0
    /\ wantReply = {}
    /\ malformed = {}
    /\ hst = [d \in ReqIds |-> "none"]
    /\ takers = [d \in ReqIds |-> {}]
    /\ replies = [d \in ReqIds |-> << >>]
    /\ gtask = {}
    /\ tornDown = {}
    /\ stask = [r \in 1..MaxRequests |-> "none"]
    /\ sresult = [r \in 1..MaxRequests |-> "none"]
    /\ stext = [r \in 1..MaxRequests |-> << >>]
    /\ sconn = TRUE
    /\ everSub = {}
    /\ inboxOpen = {}
    /\ inbox = [r \in 1..MaxRequests |-> << >>]

\* subq and hst after message m has been published on topic t: the bus hands
\* it to every subscription on the topic, or discards it when there is none.
Published(t, m) ==
    LET to == { a \in AgentNames : t \in TopicsOf(a) /\ Connected(a) } IN
      /\ subq' = [s \in Subs |->
                     IF s[2] = t /\ s[1] \in to THEN Append(subq[s], m) ELSE subq[s]]
      /\ hst' = [hst EXCEPT ![m.id] = IF to = {} THEN "dropped" ELSE "queued"]

\* Variant of ReplyTo that hands the envelope to the oldest open reply
\* subscription instead of the one of the destination.
ReplyToOldestInbox(d, e) ==
    /\ replies' = [replies EXCEPT ![d] = Append(@, e)]
    /\ inbox' = [q \in 1..MaxRequests |->
                    IF d[1] = "inbox" /\ sconn /\ q \in inboxOpen
                       /\ \A q2 \in inboxOpen : q <= q2
                    THEN Append(inbox[q], e) ELSE inbox[q]]

\* replies and inbox after envelope e has been published to destination d:
\* the bus hands it to the reply subscription on d, if there is one.
ReplyTo(d, e) ==
    /\ replies' = [replies EXCEPT ![d] = Append(@, e)]
    /\ inbox' = [q \in 1..MaxRequests |->
                    IF d[1] = "inbox" /\ sconn /\ q \in inboxOpen /\ InboxOf(q) = d[2]
                    THEN Append(inbox[q], e) ELSE inbox[q]]

\* A client publishes a request on a topic: payload well-formed or not, with
\* or without a reply destination.
ClientRequest(t, wf, rp) ==
    /\ nreq < MaxRequests
    /\ LET m == Message(<< "client", nreq + 1 >>, wf, rp) IN
         /\ nreq' = nreq + 1
         /\ wantReply' = IF rp THEN wantReply \cup {m.id} ELSE wantReply
         /\ malformed' = IF wf THEN malformed ELSE malformed \cup {m.id}
         /\ Published(t, m)
    /\ UNCHANGED << supVars, auxVars, alive, takers, replies, gtask, tornDown, stask,
                    sresult, stext, sconn, everSub, inboxOpen, inbox >>

\* An agent's main returns Err through `?`: its process ends, its
\* subscriptions are gone with what they still held.
Dies(a) ==
    /\ alive' = [alive EXCEPT ![a] = FALSE]
    /\ subq' = [s \in Subs |-> IF s[1] = a THEN << >> ELSE subq[s]]

\* A loop iteration of agent a, which answers from its own loop (explorer,
\* metadata extractor), for the message at the head of its subscription on
\* t: `serde_json::from_slice(&msg.payload)?`, then the work (ok or not)
\* wrapped in its envelope and published to msg.reply when there is one.
ServeInLoop(a, t, ok) ==
    /\ alive[a]
    /\ subq[<< a, t >>] # << >>
    /\ LET m == Head(subq[<< a, t >>]) IN
         /\ takers' = [takers EXCEPT ![m.id] = @ \cup {a}]
         /\ IF ~m.wf
            THEN /\ Dies(a)
                 /\ hst' = [hst EXCEPT ![m.id] = "aborted"]
                 /\ UNCHANGED << replies, inbox >>
            ELSE /\ subq' = [subq EXCEPT ![<< a, t >>] = Tail(@)]
                 /\ alive' = alive
                 /\ hst' = [hst EXCEPT ![m.id] = "done"]
                 /\ IF m.reply
                    THEN ReplyTo(m.id, Response(ok, WorkText(t, ok)))
                    ELSE UNCHANGED << replies, inbox >>
    /\ UNCHANGED << supVars, auxVars, nreq, wantReply, malformed, gtask, tornDown, stask,
                    sresult, stext, sconn, everSub, inboxOpen >>

\* 1_file_explorer.rs, the list_sub branch of select!.
ExplorerList(ok) == ServeInLoop("explorer", ListTopic, ok)

\* 1_file_explorer.rs, the content_sub branch of select!.
ExplorerContent(ok) == ServeInLoop("explorer", ContentTopic, ok)

\* 2_metadata_extractor.rs, `while let Some(msg) = sub.next().await`, in
\* instance a of the extractor.
MetadataServe(a, ok) == ServeInLoop(a, MetadataTopic, ok)

\* 2_metadata_extractor.rs is started a second time: the new process
\* connects and subscribes to metadata.request like the first.
MetadataSecondStarts ==
    /\ ~alive["metadata2"]
    /\ \A d \in ReqIds : "metadata2" \notin takers[d]
    /\ alive' = [alive EXCEPT !["metadata2"] = TRUE]
    /\ UNCHANGED << supVars, auxVars, subq, nreq, wantReply, malformed, hst, takers, replies,
                    gtask, tornDown, stask, sresult, stext, sconn, everSub,
                    inboxOpen, inbox >>

(***************************************************************************)
(* 5_llm_gateway.rs: the completion branch and the task it spawns.         *)
(***************************************************************************)
GatewaySub == << "gateway", CompletionTopic >>

\* `Some(msg) = sub.next()`: a malformed request is logged and skipped
\* (`continue`); otherwise a task is spawned for it.
GatewayTake ==
    /\ alive["gateway"]
    /\ subq[GatewaySub] # << >>
    /\ LET m == Head(subq[GatewaySub]) IN
         /\ subq' = [subq EXCEPT ![GatewaySub] = Tail(@)]
         /\ takers' = [takers EXCEPT ![m.id] = @ \cup {"gateway"}]
         /\ IF ~m.wf
            THEN /\ hst' = [hst EXCEPT ![m.id] = "done"]
                 /\ gtask' = gtask
            ELSE /\ hst' = [hst EXCEPT ![m.id] = "spawned"]
                 /\ gtask' = gtask \cup {m}
    /\ UNCHANGED << supVars, auxVars, alive, nreq, wantReply, malformed, replies, tornDown,
                    stask, sresult, stext, sconn, everSub, inboxOpen, inbox >>

\* What handle_mcp's result is answered with: McpResponse.content, or
\* e.to_string().
McpText(ok) == IF ok THEN << "completion" >> ELSE << "llm error" >>

\* The spawned task: handle_mcp ends Ok or Err, and the envelope is published
\* to rply when there is one.
GatewayTask(m, ok) ==
    /\ alive["gateway"]
    /\ m \in gtask
    /\ gtask' = gtask \ {m}
    /\ hst' = [hst EXCEPT ![m.id] = "done"]
    /\ IF m.reply
       THEN ReplyTo(m.id, Response(ok, McpText(ok)))
       ELSE UNCHANGED << replies, inbox >>
    /\ UNCHANGED << supVars, auxVars, alive, subq, nreq, wantReply, malformed, takers,
                    tornDown, stask, sresult, stext, sconn, everSub, inboxOpen >>

\* The gateway process ends from outside (a crash, a kill): its connection
\* is torn down with the requests it held and had not answered.
GatewayCrash ==
    /\ alive["gateway"]
    /\ Dies("gateway")
    /\ LET held == { m.id : m \in gtask } \cup
                   { subq[GatewaySub][i].id : i \in 1..Len(subq[GatewaySub]) }
       IN
         /\ tornDown' = tornDown \cup held
         /\ hst' = [d \in ReqIds |-> IF d \in held THEN "lost" ELSE hst[d]]
    /\ gtask' = {}
    /\ UNCHANGED << supVars, auxVars, nreq, wantReply, malformed, takers, replies, stask,
                    sresult, stext, sconn, everSub, inboxOpen, inbox >>

(***************************************************************************)
(* 3_summarizer.rs: main's loop, the task per request and process_file.    *)
(***************************************************************************)
SummarizerSub == << "summarizer", SummaryTopic >>

\* The tasks once main has returned: the runtime is dropped and every task
\* that has not finished is cancelled.
TasksCancelled ==
    [q \in 1..MaxRequests |->
        IF stask[q] \in {"none", "done"} THEN stask[q] ELSE "cancelled"]

\* Variant of SummarizerTake that awaits process_file in the loop: no new
\* request is taken while a call is in progress.
SummarizerTakeInline ==
    /\ alive["summarizer"]
    /\ subq[SummarizerSub] # << >>
    /\ \A q \in 1..MaxRequests : stask[q] \in {"none", "done"}
    /\ LET m == Head(subq[SummarizerSub])
           r == m.id[2]
       IN
         /\ takers' = [takers EXCEPT ![m.id] = @ \cup {"summarizer"}]
         /\ IF ~m.wf
            THEN /\ Dies("summarizer")
                 /\ hst' = [d \in ReqIds |->
                               IF d = m.id THEN "aborted"
                               ELSE IF d[1] = "client" /\ stask[d[2]] \notin {"none", "done"}
                                    THEN "cancelled" ELSE hst[d]]
                 /\ stask' = TasksCancelled
                 /\ inboxOpen' = {}
                 /\ inbox' = [q \in 1..MaxRequests |-> << >>]
            ELSE /\ subq' = [subq EXCEPT ![SummarizerSub] = Tail(@)]
                 /\ alive' = alive
                 /\ hst' = [hst EXCEPT ![m.id] = IF m.reply THEN "spawned" ELSE "done"]
                 /\ stask' = IF m.reply THEN [stask EXCEPT ![r] = "start"] ELSE stask
                 /\ UNCHANGED << inboxOpen, inbox >>
    /\ UNCHANGED << supVars, auxVars, nreq, wantReply, malformed, replies, gtask, tornDown,
                    sresult, stext, sconn, everSub >>

\* `while let Some(msg) = sub.next().await`: `from_slice(..)?` ends main on a
\* malformed payload, and with main the runtime and every task it spawned;
\* a request without reply destination is skipped; otherwise a task is
\* spawned.
SummarizerTake ==
    /\ alive["summarizer"]
    /\ subq[SummarizerSub] # << >>
    /\ LET m == Head(subq[SummarizerSub])
           r == m.id[2]
       IN
         /\ takers' = [takers EXCEPT ![m.id] = @ \cup {"summarizer"}]
         /\ IF ~m.wf
            THEN /\ Dies("summarizer")
                 /\ hst' = [d \in ReqIds |->
                               IF d = m.id THEN "aborted"
                               ELSE IF d[1] = "client" /\ stask[d[2]] \notin {"none", "done"}
                                    THEN "cancelled" ELSE hst[d]]
                 /\ stask' = TasksCancelled
                 /\ inboxOpen' = {}
                 /\ inbox' = [q \in 1..MaxRequests |-> << >>]
            ELSE /\ subq' = [subq EXCEPT ![SummarizerSub] = Tail(@)]
                 /\ alive' = alive
                 /\ hst' = [hst EXCEPT ![m.id] = IF m.reply THEN "spawned" ELSE "done"]
                 /\ stask' = IF m.reply THEN [stask EXCEPT ![r] = "start"] ELSE stask
                 /\ UNCHANGED << inboxOpen, inbox >>
    /\ UNCHANGED << supVars, auxVars, nreq, wantReply, malformed, replies, gtask, tornDown,
                    sresult, stext, sconn, everSub >>

\* The summarizer's connection to the bus is closed: nothing is delivered to
\* its subscriptions any more and their streams end.
SummarizerConnClosed ==
    /\ alive["summarizer"]
    /\ sconn
    /\ sconn' = FALSE
    /\ UNCHANGED << supVars, auxVars, alive, subq, nreq, wantReply, malformed, hst, takers,
                    replies, gtask, tornDown, stask, sresult, stext, everSub,
                    inboxOpen, inbox >>

\* `sub.next()` yields None: the while loop ends, main returns Ok(()) and
\* the runtime is dropped with the tasks still in it.
SummarizerEnd ==
    /\ alive["summarizer"]
    /\ ~sconn
    /\ subq[SummarizerSub] = << >>
    /\ alive' = [alive EXCEPT !["summarizer"] = FALSE]
    /\ hst' = [d \in ReqIds |->
                  IF d[1] = "client" /\ stask[d[2]] \notin {"none", "done"}
                  THEN "cancelled" ELSE hst[d]]
    /\ stask' = TasksCancelled
    /\ inboxOpen' = {}
    /\ inbox' = [q \in 1..MaxRequests |-> << >>]
    /\ UNCHANGED << supVars, auxVars, subq, nreq, wantReply, malformed, takers, replies,
                    gtask, tornDown, sresult, stext, sconn, everSub >>

\* process_file returns: how it ended, the value or message it returns, and
\* its reply subscription (if it had one) is dropped.
Returns(r, outcome, text) ==
    /\ sresult' = [sresult EXCEPT ![r] = outcome]
    /\ stext' = [stext EXCEPT ![r] = text]
    /\ inboxOpen' = inboxOpen \ {r}
    /\ stask' = [stask EXCEPT ![r] = "respond"]

\* Variant of SummarizerStart that publishes the request first and leaves
\* the subscription for afterwards.
SummarizerStartPublishFirst(r, fileOk) ==
    /\ alive["summarizer"]
    /\ stask[r] = "start"
    /\ fileOk /\ sconn
    /\ Published(CompletionTopic, Message(<< "inbox", InboxOf(r) >>, TRUE, TRUE))
    /\ wantReply' = wantReply \cup {<< "inbox", InboxOf(r) >>}
    /\ stask' = [stask EXCEPT ![r] = "published"]
    /\ UNCHANGED << supVars, auxVars, alive, nreq, malformed, takers, replies, gtask,
                    tornDown, sresult, stext, sconn, everSub, inboxOpen, inbox >>

\* process_file up to the subscription: the file is read (or not, and the
\* call ends), an inbox is made and subscribed to (`subscribe(..).await?`
\* fails once the connection is closed).
SummarizerStart(r, fileOk) ==
    /\ alive["summarizer"]
    /\ stask[r] = "start"
    /\ IF ~fileOk
       THEN /\ Returns(r, "ReadFailed", << "No se pudo leer el archivo: {path}" >>)
            /\ everSub' = everSub
       ELSE IF ~sconn
       THEN /\ Returns(r, "SubscribeFailed", << "subscribe: connection closed" >>)
            /\ everSub' = everSub
       ELSE /\ inboxOpen' = inboxOpen \cup {r}
            /\ everSub' = everSub \cup {r}
            /\ stask' = [stask EXCEPT ![r] = "subscribed"]
            /\ UNCHANGED << sresult, stext >>
    /\ UNCHANGED << supVars, auxVars, alive, subq, nreq, wantReply, malformed, hst, takers,
                    replies, gtask, tornDown, sconn, inbox >>

\* `client.publish_with_reply("mcp.request.completion", inbox, ..).await?`
SummarizerPublish(r) ==
    /\ alive["summarizer"]
    /\ stask[r] = "subscribed"
    /\ IF sconn
       THEN /\ Published(CompletionTopic, Message(<< "inbox", InboxOf(r) >>, TRUE, TRUE))
            /\ wantReply' = wantReply \cup {<< "inbox", InboxOf(r) >>}
            /\ stask' = [stask EXCEPT ![r] = "waiting"]
            /\ UNCHANGED << sresult, stext, inboxOpen >>
       ELSE /\ Returns(r, "PublishFailed", << "publish: connection closed" >>)
            /\ UNCHANGED << subq, hst, wantReply >>
    /\ UNCHANGED << supVars, auxVars, alive, nreq, malformed, takers, replies, gtask,
                    tornDown, sconn, everSub, inbox >>

\* Something that is not an AgentResponse<McpResponse> is published to the
\* inbox of call r while the call waits (at most once per call).
StrayReply(r) ==
    /\ alive["summarizer"]
    /\ sconn
    /\ stask[r] = "waiting"
    /\ inbox[r] = << >>
    /\ inbox' = [inbox EXCEPT ![r] = << [kind |-> "Malformed", text |-> << >>] >>]
    /\ UNCHANGED << supVars, auxVars, alive, subq, nreq, wantReply, malformed, hst, takers,
                    replies, gtask, tornDown, stask, sresult, stext, sconn,
                    everSub, inboxOpen >>

\* The end of process_file for the payload e it received: the context
\* "Respuesta del Gateway malformada" when it does not deserialize,
\* Ok(resp.content) for Success, and
\* bail!("El LLM Gateway devolvió un error: {}", e) for Error.
ProcessFileResult(e) ==
    CASE e.kind = "Malformed" ->
           [outcome |-> "MalformedReply",
            text |-> << "Respuesta del Gateway malformada" >>]
      [] e.kind = "Success" ->
           [outcome |-> "Summary", text |-> e.text]
      [] e.kind = "Error" ->
           [outcome |-> "GatewayError",
            text |-> << "El LLM Gateway devolvió un error: " >> \o e.text]

\* `timeout(120 s, replies.next())` yields the reply.
SummarizerReceive(r) ==
    /\ alive["summarizer"]
    /\ stask[r] = "waiting"
    /\ inbox[r] # << >>
    /\ LET res == ProcessFileResult(Head(inbox[r])) IN
         Returns(r, res.outcome, res.text)
    /\ inbox' = [inbox EXCEPT ![r] = << >>]
    /\ UNCHANGED << supVars, auxVars, alive, subq, nreq, wantReply, malformed, hst, takers,
                    replies, gtask, tornDown, sconn, everSub >>

\* Variant of SummarizerTimeout: the deadline is noted but the call goes on
\* waiting for a reply.
SummarizerTimeoutKeepsWaiting(r) ==
    /\ alive["summarizer"]
    /\ stask[r] = "waiting"
    /\ inbox[r] = << >>
    /\ sresult[r] = "none"
    /\ sresult' = [sresult EXCEPT ![r] = "Timeout"]
    /\ UNCHANGED << supVars, auxVars, alive, subq, nreq, wantReply, malformed, hst, takers,
                    replies, gtask, tornDown, stask, stext, sconn, everSub,
                    inboxOpen, inbox >>

\* Variant of SummarizerTimeout that leaves the reply subscription behind.
SummarizerTimeoutLeaksSub(r) ==
    /\ alive["summarizer"]
    /\ stask[r] = "waiting"
    /\ inbox[r] = << >>
    /\ sconn
    /\ sresult' = [sresult EXCEPT ![r] = "Timeout"]
    /\ stask' = [stask EXCEPT ![r] = "respond"]
    /\ UNCHANGED << supVars, auxVars, alive, subq, nreq, wantReply, malformed, hst, takers,
                    replies, gtask, tornDown, stext, sconn, everSub, inboxOpen,
                    inbox >>

\* The deadline passes with the stream open and no reply in it.
SummarizerTimeout(r) ==
    /\ alive["summarizer"]
    /\ stask[r] = "waiting"
    /\ inbox[r] = << >>
    /\ sconn
    /\ Returns(r, "Timeout",
               << "Timeout esperando respuesta del LLM Gateway (120s)." >>)
    /\ UNCHANGED << supVars, auxVars, alive, subq, nreq, wantReply, malformed, hst, takers,
                    replies, gtask, tornDown, sconn, everSub, inbox >>

\* `replies.next()` yields None: the reply stream has ended without a message.
SummarizerClosed(r) ==
    /\ alive["summarizer"]
    /\ stask[r] = "waiting"
    /\ inbox[r] = << >>
    /\ ~sconn
    /\ Returns(r, "ChannelClosed",
               << "El LLM Gateway cerró la respuesta sin emitir mensaje" >>)
    /\ UNCHANGED << supVars, auxVars, alive, subq, nreq, wantReply, malformed, hst, takers,
                    replies, gtask, tornDown, sconn, everSub, inbox >>

\* The task wraps process_file's result and publishes it to reply_to
\* (`publish(..).await.ok()`: nothing is published once the connection is
\* closed).
SummarizerRespond(r) ==
    /\ alive["summarizer"]
    /\ stask[r] = "respond"
    /\ IF sconn
       THEN ReplyTo(<< "client", r >>, Response(sresult[r] = "Summary", stext[r]))
       ELSE UNCHANGED << replies, inbox >>
    /\ stask' = [stask EXCEPT ![r] = "done"]
    /\ hst' = [hst EXCEPT ![<< "client", r >>] = "done"]
    /\ UNCHANGED << supVars, auxVars, alive, subq, nreq, wantReply, malformed, takers, gtask,
                    tornDown, sresult, stext, sconn, everSub, inboxOpen >>

(***************************************************************************)
(* 5_llm_gateway.rs: the configuration state and handle_mcp's choices.     *)
(***************************************************************************)
\* Option::None
None == "none"

\* The providers handle_mcp has a branch for.
Providers == {"openai", "groq", "ollama"}

\* What a provider field may hold: nothing, a provider, or another word.
ProviderOpts == {None} \cup Providers \cup {"auto"}

\* What a temperature field may hold.
TempOpts == {None, "t1", "t2"}

\* McpRequest as far as handle_mcp's choices go: the provider field, the
\* model name (its provider prefix, if it has one, and the rest) and the
\* temperature.
McpRequests ==
    [provider : {None, "groq"}, prefix : {None, "ollama"},
     temperature : {None, "t1"}]

\* The fields of LlmConfigState and of LlmConfigSet.
Fields == {"provider", "model", "base_url", "api_key", "temperature"}

\* LlmConfigSet, the payload of llm.config.set when it deserializes.
ConfigSets ==
    [provider : ProviderOpts, model : {None, "m1"}, base_url : {None, "u1"},
     api_key : {None, "k1"}, temperature : TempOpts]

\* LlmConfigState::default()
DefaultState ==
    [provider |-> None, model |-> None, base_url |-> None, api_key |-> None,
     temperature |-> None]

\* a.or(b) of Option
OrElse(a, b) == IF a # None THEN a ELSE b

\* Variant of MergeConfig that stores the update as the new state.
MergeConfigReplace(cfg, state) == cfg

\* The llm.config.set branch: every field is `cfg.x.or(state.x)`.
MergeConfig(cfg, state) ==
    [provider |-> OrElse(cfg.provider, state.provider),
     model |-> OrElse(cfg.model, state.model),
     base_url |-> OrElse(cfg.base_url, state.base_url),
     api_key |-> OrElse(cfg.api_key, state.api_key),
     temperature |-> OrElse(cfg.temperature, state.temperature)]

\* `state.provider.clone().unwrap_or_else(|| "openai".to_string())`
ProviderOf(state) == IF state.provider = None THEN "openai" ELSE state.provider

\* The key a request to provider p is sent with: the state's, else the
\* provider's environment variable; Ollama is sent none.
KeyFor(p, state) ==
    IF p \in {"openai", "groq"} THEN OrElse(state.api_key, "env") ELSE None

\* The base URL handle_mcp uses for provider p: fixed for OpenAI and Groq,
\* the state's or the local default for Ollama.
BaseFor(p, state) ==
    CASE p = "openai" -> "https://api.openai.com"
      [] p = "groq" -> "https://api.groq.com"
      [] p = "ollama" -> OrElse(state.base_url, "http://localhost:11434")
      [] OTHER -> None

\* handle_mcp: the provider it matches on, the model name it sends
\* (req.model as it came, prefix included), the temperature, the key and the
\* base URL.
HandleMcp(req, state) ==
    [provider |-> ProviderOf(state),
     modelPrefix |-> req.prefix,
     temperature |-> IF OrElse(req.temperature, state.temperature) = None
                     THEN "0.7"
                     ELSE OrElse(req.temperature, state.temperature),
     key |-> KeyFor(ProviderOf(state), state),
     base |-> BaseFor(ProviderOf(state), state)]

\* list_models: the provider it matches on, the key and the base URL.
ListModels(state) ==
    [provider |-> ProviderOf(state),
     modelPrefix |-> None,
     temperature |-> None,
     key |-> KeyFor(ProviderOf(state), state),
     base |-> IF ProviderOf(state) = "groq" THEN "https://api.groq.com/openai"
              ELSE BaseFor(ProviderOf(state), state)]

\* inspect_providers: the key it probes OpenAI and Groq with and the base
\* URL it probes Ollama at.
InspectProviders(state) ==
    [provider |-> None,
     modelPrefix |-> None,
     temperature |-> None,
     key |-> OrElse(state.api_key, "env"),
     base |-> OrElse(state.base_url, "env or http://localhost:11434")]

\* The requests the gateway spawns a task for: the topic's kind and, for a
\* completion, the McpRequest.
NoRequest == [provider |-> None, prefix |-> None, temperature |-> None]

GatewayRequests ==
    { [kind |-> "completion", req |-> r] : r \in McpRequests }
        \cup { [kind |-> k, req |-> NoRequest] : k \in {"models", "inspect"} }

\* What the task spawned for a request of kind k computes from the state it
\* was given.
Serve(k, req, state) ==
    CASE k = "completion" -> HandleMcp(req, state)
      [] k = "models" -> ListModels(state)
      [] k = "inspect" -> InspectProviders(state)

GatewayInit ==
    /\ gstate = DefaultState
    /\ gflight = {}
    /\ gserved = << >>
    /\ gmsgs = 0
    /\ glast = DefaultState
    /\ gcfg = << >>

\* `Some(msg) = cfg_sub.next()` with a payload that deserializes.  glast
\* keeps, for each field, the value of the latest update that supplied it.
GatewayConfigSet(cfg) ==
    /\ gmsgs < MaxRequests
    /\ gmsgs' = gmsgs + 1
    /\ gstate' = MergeConfig(cfg, gstate)
    /\ glast' = [f \in Fields |-> IF cfg[f] # None THEN cfg[f] ELSE glast[f]]
    /\ gcfg' = << [valid |-> TRUE, cfg |-> cfg] >>
    /\ UNCHANGED << supVars, busVars, rdVars, clVars, gflight, gserved >>

\* `Some(msg) = cfg_sub.next()` with a payload that does not deserialize:
\* the error is logged.
GatewayConfigInvalid ==
    /\ gmsgs < MaxRequests
    /\ gmsgs' = gmsgs + 1
    /\ gcfg' = << [valid |-> FALSE, cfg |-> DefaultState] >>
    /\ UNCHANGED << supVars, busVars, rdVars, clVars, gstate, gflight, gserved, glast >>

\* A completion, model-list or provider-inspection request is taken from its
\* subscription: `state_snapshot = state.clone()` and a task is spawned.
GatewayReceive(q) ==
    /\ gmsgs < MaxRequests
    /\ gmsgs' = gmsgs + 1
    /\ gflight' = gflight \cup
                     { [id |-> gmsgs + 1, kind |-> q.kind, req |-> q.req, state |-> gstate] }
    /\ UNCHANGED << supVars, busVars, rdVars, clVars, gstate, gserved, glast, gcfg >>

\* Variant of GatewayServe whose task reads the gateway's state when it
\* runs instead of the snapshot it was given.
GatewayServeLive(f) ==
    /\ f \in gflight
    /\ gflight' = gflight \ {f}
    /\ gserved' = << [kind |-> f.kind, req |-> f.req, state |-> f.state,
                      with |-> Serve(f.kind, f.req, gstate)] >>
    /\ UNCHANGED << supVars, busVars, rdVars, clVars, gstate, gmsgs, glast, gcfg >>

\* The task spawned for request f runs handle_mcp, list_models or
\* inspect_providers with its snapshot.
GatewayServe(f) ==
    /\ f \in gflight
    /\ gflight' = gflight \ {f}
    /\ gserved' = << [kind |-> f.kind, req |-> f.req, state |-> f.state,
                      with |-> Serve(f.kind, f.req, f.state)] >>
    /\ UNCHANGED << supVars, busVars, rdVars, clVars, gstate, gmsgs, glast, gcfg >>

(***************************************************************************)
(* 6_agent_launcher.rs: the two output readers spawn_agent starts for a    *)
(* process.                                                                *)
(***************************************************************************)
Streams == {"stdout", "stderr"}

\* A line the process writes: its number on its stream, and whether its
\* bytes are valid UTF-8.
Line(n, valid) == [n |-> n, valid |-> valid]

\* info!("[{}] {}", stdout_name, line) / error!("[{}] {}", stderr_name, line)
LogEntry(s, l) ==
    [level |-> IF s = "stdout" THEN "info" ELSE "error", name |-> "A",
     stream |-> s, n |-> l.n]

ReaderInit ==
    /\ pipe = [s \in Streams |-> << >>]
    /\ wopen = [s \in Streams |-> TRUE]
    /\ nlines = [s \in Streams |-> 0]
    /\ reader = [s \in Streams |-> "reading"]
    /\ log = << >>

\* The process writes a line on stream s.
ProcWrites(s, valid) ==
    /\ wopen[s]
    /\ nlines[s] < MaxLines
    /\ nlines' = [nlines EXCEPT ![s] = @ + 1]
    /\ pipe' = [pipe EXCEPT ![s] = Append(@, Line(nlines[s] + 1, valid))]
    /\ UNCHANGED << supVars, busVars, gwVars, clVars, wopen, reader, log >>

\* The process closes stream s (or terminates): end-of-stream follows what
\* is still in the pipe.
ProcCloses(s) ==
    /\ wopen[s]
    /\ wopen' = [wopen EXCEPT ![s] = FALSE]
    /\ UNCHANGED << supVars, busVars, gwVars, clVars, pipe, nlines, reader, log >>

\* One turn of `while let Ok(Some(line)) = reader.next_line().await`:
\* Ok(Some(line)) is logged; Err (the line is not valid UTF-8) and Ok(None)
\* (end of stream) end the loop and the task.
ReaderNext(s) ==
    /\ reader[s] = "reading"
    /\ IF pipe[s] # << >>
       THEN IF Head(pipe[s]).valid
            THEN /\ log' = Append(log, LogEntry(s, Head(pipe[s])))
                 /\ pipe' = [pipe EXCEPT ![s] = Tail(@)]
                 /\ reader' = reader
            ELSE /\ reader' = [reader EXCEPT ![s] = "stopped"]
                 /\ pipe' = [pipe EXCEPT ![s] = Tail(@)]
                 /\ log' = log
       ELSE /\ ~wopen[s]
            /\ reader' = [reader EXCEPT ![s] = "stopped"]
            /\ UNCHANGED << pipe, log >>
    /\ UNCHANGED << supVars, busVars, gwVars, clVars, wopen, nlines >>

(***************************************************************************)
(* 4_interactive_client.rs: the requests of the interactive client and the *)
(* subscriptions that can answer them.                                     *)
(***************************************************************************)
\* The topics of the client's `request(..)` calls.
ClientTopics ==
    {"mcp.ping", "mcp.provider.list", "mcp.provider.inspect",
     MetadataTopic, SummaryTopic}

\* The gateway's subscriptions besides the completion topic.
GatewayControlTopics ==
    {"llm.ping", "llm.config.set", "llm.models.list", "llm.providers.inspect"}

\* Every topic an agent's main subscribes to.
SubscribedTopics(a) ==
    IF a = "gateway" THEN TopicsOf(a) \cup GatewayControlTopics ELSE TopicsOf(a)

\* The running agents with a subscription on exactly topic t.
Responders(t) == { a \in AgentNames : Connected(a) /\ t \in SubscribedTopics(a) }

ClientInit == creq = [t \in ClientTopics |-> "idle"]

\* `c.request(t, data).await` is called: the request is published with a
\* fresh inbox and the call waits.
ClientAsk(t) ==
    /\ creq[t] # "pending"
    /\ creq' = [creq EXCEPT ![t] = "pending"]
    /\ UNCHANGED << supVars, busVars, gwVars, rdVars >>

\* An agent subscribed to t publishes its reply to the inbox: Ok(msg).
ClientReplied(t) ==
    /\ creq[t] = "pending"
    /\ Responders(t) # {}
    /\ creq' = [creq EXCEPT ![t] = "replied"]
    /\ UNCHANGED << supVars, busVars, gwVars, rdVars >>

\* Nobody is subscribed to t: the call ends with Err (no responders, or the
\* request timeout).
ClientNoResponder(t) ==
    /\ creq[t] = "pending"
    /\ Responders(t) = {}
    /\ creq' = [creq EXCEPT ![t] = "failed"]
    /\ UNCHANGED << supVars, busVars, gwVars, rdVars >>

(***************************************************************************)
(* Specifications.                                                         *)
(***************************************************************************)
Init == SupInit /\ BusInit /\ GatewayInit /\ ReaderInit /\ ClientInit

MainStep ==
    \/ StartupNext
    \/ StartupDone
    \/ LoopSignal
    \/ LoopEvent
    \/ ShutdownNext
    \/ ShutdownDone

WaiterStep ==
    \E p \in 1..Len(procs) : WaiterLock(p) \/ WaiterReap(p) \/ WaiterSend(p)

EnvStep ==
    \/ OperatorSignal
    \/ \E p \in 1..Len(procs), s \in {"ok", "fail"} : ProcExit(p, s)

Next == MainStep \/ WaiterStep \/ EnvStep

Spec == Init /\ [][Next]_vars

\* The runtime schedules every task that can run: main and the waiter tasks
\* are weakly fair.  Nothing obliges a process to terminate or the operator
\* to send a signal.
FairSpec == Spec /\ WF_vars(MainStep) /\ WF_vars(WaiterStep)

\* The runtime schedules the waiter tasks; nothing is assumed of main.
WaiterFairSpec == Spec /\ WF_vars(WaiterStep)

\* select! polls its branches in random order, so neither branch of the
\* control loop is passed over for ever while it stays ready; main's other
\* steps and the waiter tasks are scheduled as in FairSpec.
SelectFairSpec ==
    /\ Spec
    /\ WF_vars(LoopSignal)
    /\ WF_vars(LoopEvent)
    /\ WF_vars(StartupNext \/ StartupDone \/ ShutdownNext \/ ShutdownDone)
    /\ WF_vars(WaiterStep)

\* The bus, its clients and the four agents.
BusNext ==
    \/ \E t \in Topics, wf \in BOOLEAN, rp \in BOOLEAN : ClientRequest(t, wf, rp)
    \/ \E ok \in BOOLEAN : ExplorerList(ok)
    \/ \E ok \in BOOLEAN : ExplorerContent(ok)
    \/ \E a \in {"metadata", "metadata2"}, ok \in BOOLEAN : MetadataServe(a, ok)
    \/ MetadataSecondStarts
    \/ GatewayTake
    \/ \E m \in gtask, ok \in BOOLEAN : GatewayTask(m, ok)
    \/ GatewayCrash
    \/ SummarizerTake
    \/ SummarizerConnClosed
    \/ SummarizerEnd
    \/ \E r \in 1..MaxRequests, ok \in BOOLEAN : SummarizerStart(r, ok)
    \/ \E r \in 1..MaxRequests : StrayReply(r)
    \/ \E r \in 1..MaxRequests :
          \/ SummarizerPublish(r)
          \/ SummarizerReceive(r)
          \/ SummarizerTimeout(r)
          \/ SummarizerClosed(r)
          \/ SummarizerRespond(r)

\* The supervisor takes no step here: one of its configurations is enough.
BusStart == Init /\ Len(config) = 1

BusSpec == BusStart /\ [][BusNext]_vars

\* A step of the summarizer's main loop or of its connection.
SummarizerMain ==
    \/ SummarizerTake
    \/ SummarizerConnClosed
    \/ SummarizerEnd

\* A step of process_file for request r before it waits for the reply.
CallSetup(r) ==
    \/ \E ok \in BOOLEAN : SummarizerStart(r, ok)
    \/ SummarizerPublish(r)

\* `timeout(120 s, replies.next()).await` completes for request r.
CallResolve(r) ==
    \/ SummarizerReceive(r)
    \/ SummarizerTimeout(r)
    \/ SummarizerClosed(r)

\* The summary path alone: the client asks for summaries only, so neither
\* explorer nor metadata extractor is delivered anything.
SummaryNext ==
    \/ \E wf \in BOOLEAN, rp \in BOOLEAN : ClientRequest(SummaryTopic, wf, rp)
    \/ GatewayTake
    \/ \E m \in gtask, ok \in BOOLEAN : GatewayTask(m, ok)
    \/ GatewayCrash
    \/ \E r \in 1..MaxRequests : StrayReply(r)
    \/ SummarizerMain
    \/ \E r \in 1..MaxRequests : CallSetup(r)
    \/ \E r \in 1..MaxRequests : CallResolve(r)
    \/ \E r \in 1..MaxRequests : SummarizerRespond(r)

SummarySpec == BusStart /\ [][SummaryNext]_vars

\* The runtime polls every task that can make progress, and the timer of a
\* waiting call fires.
SummaryFairSpec ==
    /\ SummarySpec
    /\ \A r \in 1..MaxRequests :
          /\ WF_vars(CallSetup(r))
          /\ WF_vars(CallResolve(r))
          /\ WF_vars(SummarizerRespond(r))

\* The gateway's configuration and request branches and its tasks alone.
GatewayNext ==
    \/ \E cfg \in ConfigSets : GatewayConfigSet(cfg)
    \/ GatewayConfigInvalid
    \/ \E q \in GatewayRequests : GatewayReceive(q)
    \/ \E f \in gflight : GatewayServe(f)

GatewaySpec == BusStart /\ [][GatewayNext]_vars

\* One process's output streams and their readers alone.
ReadersNext ==
    \/ \E s \in Streams, valid \in BOOLEAN : ProcWrites(s, valid)
    \/ \E s \in Streams : ProcCloses(s)
    \/ \E s \in Streams : ReaderNext(s)

ReadersSpec == BusStart /\ [][ReadersNext]_vars

\* The interactive client's requests alone, with the agents running.
ClientNext ==
    \/ \E t \in ClientTopics : ClientAsk(t)
    \/ \E t \in ClientTopics : ClientReplied(t)
    \/ \E t \in ClientTopics : ClientNoResponder(t)

ClientSpec == BusStart /\ [][ClientNext]_vars

(***************************************************************************)
(* Properties of the supervisor.                                           *)
(***************************************************************************)
StartupOver == startIdx > Len(config)

\* The process a managed entry stands for.
ProcOf(i) == procs[agents[i].proc]

\* C1: shutdown liveness.  Once the control loop has observed the operator
\* signal, main eventually returns, whatever the managed processes do (also
\* when some of them never terminate on their own).
C1_ShutdownTerminates == sigObserved ~> (pc = "done")

C3_IdsDistinct ==
    \A i, j \in 1..Len(agents) : i # j => agents[i].id # agents[j].id

\* C4: a failed respawn is not fatal.  main leaves with an error only from
\* the start-up sequence, never from the control loop.
C4_RestartFailureNotFatal == (pc = "error") => ~StartupOver

\* C5: OnFailure policy.  A process of an OnFailure agent whose exit led to a
\* respawn did not exit with status 0.
C5_OnFailureOnlyAfterFailure ==
    \A p \in respawned : procs[p].restart = OnFailure => procs[p].status # "ok"

\* C6: Always policy.  Once start-up is over, an enabled Always agent has been
\* spawned exactly once at start-up plus exactly once per lifecycle event of
\* it that the control loop has handled (spawn_agent calls are counted; a
\* call may fail).
C6_AlwaysOncePerExit ==
    StartupOver =>
        \A i \in Enabled(config) :
            config[i].restart = Always =>
                spawnCalls[config[i].name] = 1 + handled[config[i].name]

\* C6 witness: an Always agent whose exit has been handled twice.
C6_Witness == StartupOver /\ handled["A"] = 2 /\ spawnCalls["A"] = 3

\* C7: Never policy.  A Never agent is spawned at most once in a run, and once
\* its lifecycle event has been handled no entry of the managed set bears its
\* name.
C7_NeverNotRespawned ==
    \A i \in Enabled(config) :
        config[i].restart = Never =>
            /\ spawnCalls[config[i].name] <= 1
            /\ handled[config[i].name] >= 1 =>
                   \A k \in 1..Len(agents) : agents[k].name # config[i].name

\* C7 witness: the Never agent's exit has been handled and the control loop
\* has gone on to handle (and respawn) another agent after it.
C7_Witness ==
    /\ handled["C"] = 1
    /\ handled["A"] >= 1
    /\ chan = << >>
    /\ pc = "loop"

\* C8: no duplicate managed entries.  The managed set holds at most one entry
\* per agent name and never more entries than there are enabled agents.
C8_NoDuplicateEntries ==
    /\ \A i, j \in 1..Len(agents) : i # j => agents[i].name # agents[j].name
    /\ Len(agents) <= NumEnabled

\* C8 witness: an agent has crashed and been respawned twice and the managed
\* set is at its full size.
C8_Witness ==
    /\ handled["A"] >= 2
    /\ NumEnabled = 2
    /\ Len(agents) = NumEnabled

(***************************************************************************)
(* Properties of the agents' request handling.                             *)
(***************************************************************************)
\* The agent has taken the request from its subscription and its handling
\* of it has ended: the handler (and the task it spawned) ran to its end,
\* or the agent's main returned with an error on it, or the task was
\* cancelled with the agent's runtime.
Handled(d) == hst[d] \in {"done", "aborted", "cancelled"}

\* C9: exactly one reply.  No reply destination ever receives two envelopes,
\* and once an agent is through with a request that carried a reply
\* destination, exactly one envelope has been published to it.
C9_ExactlyOneReply ==
    \A d \in ReqIds :
        /\ Len(replies[d]) <= 1
        /\ (Handled(d) /\ d \in wantReply) => Len(replies[d]) = 1

\* C10: a malformed request is answered.  Once an agent is through with a
\* request whose payload cannot be deserialized and that carried a reply
\* destination, an Error envelope has been published to that destination.
C10_MalformedAnswered ==
    \A d \in malformed \cap wantReply :
        hst[d] \in {"done", "aborted"} =>
            Len(replies[d]) = 1 /\ replies[d][1].kind = "Error"

(***************************************************************************)
(* Properties of the summarizer's calls to the gateway.                    *)
(***************************************************************************)
\* The request of call r has been published (r waits, or has waited, for
\* the reply).
CallPublished(r) == hst[<< "inbox", InboxOf(r) >>] # "none"

\* Call r has ended without a reply: by the deadline or by the end of its
\* reply stream.
NoReply(r) == sresult[r] \in {"Timeout", "ChannelClosed"}

\* C11: Timeout versus ChannelClosed.  A call that ends without a reply
\* while its reply stream is open ends as Timeout; a call whose request the
\* gateway held, unanswered, when the gateway's connection was torn down
\* ends as ChannelClosed; the two outcomes carry different messages.
C11_TimeoutVsChannelClosed ==
    \A r \in 1..MaxRequests :
        /\ (NoReply(r) /\ sconn) => sresult[r] = "Timeout"
        /\ (NoReply(r) /\ << "inbox", InboxOf(r) >> \in tornDown) =>
               sresult[r] = "ChannelClosed"
        /\ \A q \in 1..MaxRequests :
               (sresult[r] = "Timeout" /\ sresult[q] = "ChannelClosed") =>
                   stext[r] # stext[q]

\* The envelopes published to the reply destination of call r.
OwnReplies(r) == replies[<< "inbox", InboxOf(r) >>]

\* Call r has ended with a reply.
Replied(r) == sresult[r] \in {"Summary", "GatewayError"}

\* C12: call correlation.  A call that ends with a reply ends with what
\* process_file makes of the envelope the gateway published to that call's
\* own reply destination, and no envelope is ever handed to a call's reply
\* subscription that was not published to that call's destination.
C12_CallCorrelation ==
    \A r \in 1..MaxRequests :
        /\ Replied(r) =>
              /\ Len(OwnReplies(r)) = 1
              /\ ProcessFileResult(OwnReplies(r)[1]) =
                     [outcome |-> sresult[r], text |-> stext[r]]
        /\ \A i \in 1..Len(inbox[r]) :
              \/ inbox[r][i].kind = "Malformed"
              \/ \E j \in 1..Len(OwnReplies(r)) : inbox[r][i] = OwnReplies(r)[j]

\* Two calls outstanding together with different replies, the later call
\* answered first: call 2 has ended with the gateway's Success while call 1
\* still waits, the gateway's Error for it delivered and not yet taken.
C12_Witness ==
    /\ stask[1] = "waiting"
    /\ inbox[1] # << >>
    /\ inbox[1][1].kind = "Error"
    /\ sresult[2] = "Summary"

\* C13: verbatim propagation.  A call that ends with the gateway's envelope
\* returns exactly the envelope's value (Success) or message (Error), and
\* the envelope the summarizer publishes to its own client for a gateway
\* Error carries that message unchanged.
C13_VerbatimPropagation ==
    \A r \in 1..MaxRequests :
        Replied(r) =>
            /\ stext[r] = OwnReplies(r)[1].text
            /\ \A i \in 1..Len(replies[<< "client", r >>]) :
                  replies[<< "client", r >>][i] = OwnReplies(r)[1]

\* C14: at most one processor per request.  Whatever instances of an agent
\* are running, a published request is taken by at most one agent and at
\* most one envelope is published to its reply destination.
C14_AtMostOneProcessor ==
    \A d \in ReqIds :
        /\ Cardinality(takers[d]) <= 1
        /\ Len(replies[d]) <= 1

\* C15: subscribe before publish.  The request of a call is published only
\* after the call's reply subscription was established, so every envelope
\* published to a call's reply destination finds the subscription made, and
\* while the request is with the gateway and the call waits the
\* subscription is there; a call whose subscribing failed never publishes.
C15_SubscribeBeforePublish ==
    \A r \in 1..MaxRequests :
        /\ CallPublished(r) => r \in everSub
        /\ OwnReplies(r) # << >> => r \in everSub
        /\ (stask[r] = "waiting" /\ hst[<< "inbox", InboxOf(r) >>] \in {"queued", "spawned"})
               => r \in inboxOpen
        /\ sresult[r] = "SubscribeFailed" => ~CallPublished(r)

\* One call has received the gateway's reply on its subscription and ended
\* with it; for another the subscribing failed.
C15_Witness ==
    \E r, q \in 1..MaxRequests :
        /\ sresult[r] = "Summary"
        /\ r \in everSub
        /\ sresult[q] = "SubscribeFailed"

\* C16: at most one resolution per call.  Once a call has ended, by a reply,
\* by the deadline or by the end of its stream, no later step changes how
\* it ended or what it returned, and nothing is handed to it any more: the
\* publication of a reply to a call that has ended changes no call.
C16_AtMostOneResolution ==
    [][\A r \in 1..MaxRequests :
          sresult[r] # "none" =>
              /\ sresult'[r] = sresult[r]
              /\ stext'[r] = stext[r]
              /\ inbox'[r] = << >>
              /\ OwnReplies(r)' # OwnReplies(r) =>
                     UNCHANGED << stask, sresult, stext, inbox >>]_vars

\* A call has ended by the deadline and the gateway's reply to it was
\* published afterwards.
C16_Witness ==
    \E r \in 1..MaxRequests :
        /\ sresult[r] = "Timeout"
        /\ Len(OwnReplies(r)) = 1

\* The calls in progress: process_file has subscribed and not yet returned.
CallsInProgress == { r \in 1..MaxRequests : stask[r] \in {"subscribed", "waiting"} }

\* C17: no leaked reply subscriptions.  The reply subscriptions that exist
\* are exactly those of the calls in progress (so there are as many of the
\* one as of the other), and a call that has returned, however it ended, has
\* none.
C17_NoLeakedSubscriptions ==
    /\ inboxOpen = CallsInProgress
    /\ Cardinality(inboxOpen) = Cardinality(CallsInProgress)
    /\ \A r \in 1..MaxRequests : sresult[r] # "none" => r \notin inboxOpen

\* One call has returned by the deadline while another is in progress, and
\* the only reply subscription is that of the latter.
C17_Witness ==
    \E r, q \in 1..MaxRequests :
        /\ sresult[r] = "Timeout"
        /\ stask[q] = "waiting"
        /\ inboxOpen = {q}

\* C18: every call eventually resolves.  A call that has published its
\* request and waits for the reply eventually returns to its caller, with a
\* reply or without one.
C18_EveryCallResolves ==
    \A r \in 1..MaxRequests : (stask[r] = "waiting") ~> (sresult[r] # "none")

\* C19: independent pending calls.  Whatever calls are pending, the
\* summarizer's loop can take the next request from its subscription; and a
\* step in which one call ends (by reply, deadline or stream end) leaves
\* the position, the outcome and the delivered replies of every other call
\* as they were.
C19_IndependentPendingCalls ==
    /\ []((alive["summarizer"] /\ subq[SummarizerSub] # << >>) => ENABLED SummarizerTake)
    /\ [][\A r \in 1..MaxRequests :
             (sresult[r] = "none" /\ sresult'[r] # "none") =>
                 \A q \in (1..MaxRequests) \ {r} :
                     /\ stask'[q] = stask[q]
                     /\ sresult'[q] = sresult[q]
                     /\ stext'[q] = stext[q]
                     /\ inbox'[q] = inbox[q]]_vars

\* The call for request 1 is pending, no reply delivered; request 2 was
\* accepted after request 1 and its call has ended with the gateway's
\* summary.
C19_Witness ==
    /\ stask[1] = "waiting"
    /\ inbox[1] = << >>
    /\ sresult[2] = "Summary"

(***************************************************************************)
(* Properties of the supervisor's start-up.                                *)
(***************************************************************************)
\* A step of the start-up loop in which spawn_agent was called and failed:
\* a call is counted and no process has come of it.
StartupSpawnFails ==
    /\ pc = "startup"
    /\ spawnCalls' # spawnCalls
    /\ Len(procs') = Len(procs)

\* C20: a start-up spawn failure is fatal.  A failed spawn in the start-up
\* loop ends main with an error on that very step, and main does nothing
\* after it; in the state it leaves, no agent later in the configuration has
\* been attempted and the control loop has never run (no event handled, no
\* signal observed).
C20_StartupSpawnFailureFatal ==
    /\ [][(StartupSpawnFails => pc' = "error")
          /\ (pc = "error" =>
                 UNCHANGED << pc, startIdx, agents, spawnCalls, handled, sigObserved >>)]_vars
    /\ []((pc = "error" /\ ~StartupOver) =>
             /\ spawnCalls[config[startIdx].name] = 1
             /\ \A i \in (startIdx + 1)..Len(config) : spawnCalls[config[i].name] = 0
             /\ \A n \in Names : handled[n] = 0
             /\ ~sigObserved)

\* Main has ended with an error in the start-up loop, with an enabled agent
\* still to come in the configuration.
C20_Witness ==
    /\ pc = "error"
    /\ ~StartupOver
    /\ \E i \in (startIdx + 1)..Len(config) : config[i].enabled

(***************************************************************************)
(* Properties of the agents' processes.                                    *)
(***************************************************************************)
\* The agent has taken at least one request from a subscription.
HasServed(a) == \E d \in ReqIds : a \in takers[d]

\* C21: a request's failure is contained.  Whatever requests an agent has
\* taken (malformed ones, ones whose work failed), its process is still in
\* its request loop; the summarizer's loop ends only with its connection.
C21_FailureContained ==
    /\ \A a \in {"explorer", "metadata", "metadata2"} : HasServed(a) => alive[a]
    /\ HasServed("summarizer") => (alive["summarizer"] \/ ~sconn)

(***************************************************************************)
(* Properties of the gateway's provider selection.                         *)
(***************************************************************************)
\* C22: provider selection by the request.  A completion request is served
\* with the provider its provider field names; without one, with the
\* provider its model prefix names; and with the gateway's own configured
\* (or default) provider only when the request gives neither.
C22_ProviderByRequest ==
    (gserved # << >> /\ gserved[1].kind = "completion") =>
        LET req == gserved[1].req
            own == IF gserved[1].state.provider = None THEN "openai"
                   ELSE gserved[1].state.provider
        IN  gserved[1].with.provider =
                IF req.provider # None THEN req.provider
                ELSE IF req.prefix # None THEN req.prefix
                ELSE own

(***************************************************************************)
(* Properties of the supervisor's control loop.                            *)
(***************************************************************************)
\* The handles a run's processes can have: one per start-up spawn and one
\* per respawn.
ProcHandles == 1..(Cardinality(Names) + MaxExits)

\* The lifecycle event of process p is on the channel.
Queued(p) == \E i \in 1..Len(chan) : chan[i].proc = p

\* C23: no starvation between the two event sources.  A signal the operator
\* delivered while the supervisor was in its control loop is eventually
\* observed (unless the loop has ended by itself), and a lifecycle event on
\* the channel is eventually taken off it and handled unless a signal is
\* observed.
C23_NoStarvation ==
    /\ sigSent ~> (sigObserved \/ pc # "loop")
    /\ \A p \in ProcHandles :
          (p <= Len(procs) /\ Queued(p)) ~>
              (p <= Len(procs) /\ ~Queued(p)) \/ sigObserved

\* The step puts a lifecycle event on the channel.
Emits == Len(chan') > Len(chan)

\* The event a step that Emits has put on the channel.
Emitted == chan'[Len(chan')]

\* The waiter of every terminated process has emitted its event, unless the
\* supervisor has ended.
AllEmitted ==
    \A p \in 1..Len(procs) :
        procs[p].st # "running" => (procs[p].waiter = "done" \/ ~RuntimeAlive)

\* C24: a waiter emits a lifecycle event only after its process has
\* terminated and been reaped, the event carries the identifier and the
\* descriptor the process was spawned with, a waiter that has emitted never
\* emits again, and (the runtime being fair to the waiters) time and again
\* every process that has terminated has yielded its event, as long as the
\* supervisor is alive.
C24_SingleEvent ==
    /\ [][ /\ Emits =>
                /\ chan' = Append(chan, Emitted)
                /\ Emitted.proc \in 1..Len(procs)
                /\ procs[Emitted.proc].waiter = "send"
                /\ procs[Emitted.proc].st = "reaped"
                /\ procs'[Emitted.proc].waiter = "done"
                /\ Emitted.id = procs[Emitted.proc].pid
                /\ Emitted.name = procs[Emitted.proc].name
                /\ Emitted.restart = procs[Emitted.proc].restart
           /\ \A p \in 1..Len(procs) :
                 procs[p].waiter = "done" => procs'[p].waiter = "done" ]_vars
    /\ []<>AllEmitted

\* A process has terminated, its waiter has emitted its event and is done,
\* and the control loop has handled the event.
C24_Witness ==
    \E p \in 1..Len(procs) :
        /\ procs[p].waiter = "done"
        /\ procs[p].st = "reaped"
        /\ ~Queued(p)
        /\ handled[procs[p].name] > 0
        /\ RuntimeAlive

\* Process h never terminates so far: it runs and its waiter sits in wait()
\* with the handle's mutex.
Hung(h) == procs[h].st = "running" /\ Locked(h)

\* C25: while a process is hung, the control loop can take whichever branch
\* of select! is ready, and the waiter of every other process can take its
\* next step; only the hung process's own waiter has none.
C25_HungBlocksOnlyOwnWaiter ==
    \A h \in 1..Len(procs) :
        Hung(h) =>
            /\ (pc = "loop" /\ chan # << >>) => ENABLED LoopEvent
            /\ (pc = "loop" /\ sig) => ENABLED LoopSignal
            /\ ~ENABLED (WaiterLock(h) \/ WaiterReap(h) \/ WaiterSend(h))
            /\ \A p \in (1..Len(procs)) \ {h} :
                  RuntimeAlive =>
                      /\ procs[p].waiter = "start" => ENABLED WaiterLock(p)
                      /\ (procs[p].waiter = "waiting" /\ procs[p].st # "running")
                             => ENABLED WaiterReap(p)
                      /\ procs[p].waiter = "send" => ENABLED WaiterSend(p)

\* One process is hung while the control loop, still running, has handled the
\* exit of another agent and respawned it.
C25_Witness ==
    \E h \in 1..Len(procs), p \in 1..Len(procs) :
        /\ h # p
        /\ Hung(h)
        /\ p \in respawned
        /\ procs[p].name # procs[h].name
        /\ Len(procs) > Cardinality({procs[q].name : q \in 1..Len(procs)})
        /\ pc = "loop"

\* The step is the control loop's handling of one lifecycle event.
HandlesEvent == handled' # handled

\* C26: the managed set changes only in steps of main (the start-up loop and
\* the event handler); handling the event of one process removes no entry of
\* another process that is still running, and adds at most one entry, a new
\* one under the event's name and only if its policy permits a restart.
C26_OthersUntouched ==
    [][ /\ agents' # agents => (HandlesEvent \/ pc = "startup")
        /\ HandlesEvent =>
              LET ev == Head(chan) IN
                /\ \A i \in 1..Len(agents) :
                      (agents[i].proc # ev.proc /\ procs[agents[i].proc].st = "running")
                          => \E j \in 1..Len(agents') : agents'[j] = agents[i]
                /\ \A j \in 1..Len(agents') :
                      \/ \E i \in 1..Len(agents) : agents[i] = agents'[j]
                      \/ /\ ShouldRestart(ev)
                         /\ agents'[j].name = ev.name
                         /\ agents'[j].restart = ev.restart
                         /\ agents'[j].proc = Len(procs')
                         /\ Len(procs') = Len(procs) + 1 ]_vars

\* The descriptor (name and bin, restart policy) a record was made with.
Descriptor(r) == [name |-> r.name, restart |-> r.restart]

\* The enabled descriptors of the configuration loaded at start-up.
Loaded == { Descriptor(config[k]) : k \in Enabled(config) }

\* C27: every managed entry, and the process it stands for, carries one of
\* the enabled descriptors loaded at start-up, and a process spawned by the
\* event handler carries the descriptor of the process that emitted the event.
C27_DescriptorsImmutable ==
    /\ [](\A i \in 1..Len(agents) :
             /\ Descriptor(agents[i]) \in Loaded
             /\ Descriptor(ProcOf(i)) = Descriptor(agents[i]))
    /\ [][ (HandlesEvent /\ Len(procs') > Len(procs)) =>
              /\ Descriptor(procs'[Len(procs')]) = Descriptor(procs[Head(chan).proc])
              /\ Descriptor(agents'[Len(agents')]) = Descriptor(procs[Head(chan).proc])
              /\ agents'[Len(agents')].proc = Len(procs') ]_vars

\* An on-failure agent has been respawned after its process exited, and the
\* entry of the new process is in the managed set.
C27_Witness ==
    \E i \in 1..Len(agents) :
        /\ agents[i].restart = OnFailure
        /\ agents[i].proc > NumEnabled
        /\ ProcOf(i).st = "running"
        /\ respawned # {}

(***************************************************************************)
(* Properties of the output readers.                                       *)
(***************************************************************************)
\* The log entries that came from stream s, in the order they were logged.
Logged(s) == SelectSeq(log, LAMBDA e : e.stream = s)

\* C28: what a reader has logged is the lines written on its stream, in
\* order, each tagged with the agent's name and the stream's level; and a
\* reader that has stopped has seen its stream closed by the process and has
\* logged every line written on it.
C28_ForwardUntilEof ==
    \A s \in Streams :
        /\ Len(Logged(s)) <= nlines[s]
        /\ \A k \in 1..Len(Logged(s)) :
              /\ Logged(s)[k].n = k
              /\ Logged(s)[k].name = "A"
              /\ Logged(s)[k].level = (IF s = "stdout" THEN "info" ELSE "error")
        /\ reader[s] = "stopped" =>
              /\ ~wopen[s]
              /\ Len(Logged(s)) = nlines[s]

\* C29: once the control loop has observed the operator signal, main is out
\* of the start-up and control loops, and no step calls spawn_agent, creates
\* a process, or handles a lifecycle event.
C29_NoRespawnAfterSignal ==
    /\ [](sigObserved => pc \in {"shutdown", "done"})
    /\ [][ sigObserved =>
              /\ spawnCalls' = spawnCalls
              /\ Len(procs') = Len(procs)
              /\ handled' = handled
              /\ respawned' = respawned
              /\ Len(agents') = Len(agents) ]_vars

\* The signal was observed and the supervisor has ended, with the event of a
\* restartable agent killed by the shutdown loop still on the channel.
C29_Witness ==
    /\ sigObserved
    /\ pc = "done"
    /\ \E i \in 1..Len(chan) :
          /\ ShouldRestart(chan[i])
          /\ procs[chan[i].proc].status = "killed"

\* C30: when main has returned with the error of a failed spawn, no process
\* the supervisor spawned is still running.
C30_NoOrphansOnError ==
    pc = "error" => \A p \in 1..Len(procs) : procs[p].st # "running"

\* Main has left the control loop (or never entered it) after a completed
\* start-up.
LoopLeft == StartupOver /\ pc \in {"shutdown", "done", "error"}

\* C31: with nothing enabled main returns successfully without entering the
\* loop; the loop runs only with a non-empty managed set; and when main has
\* left the loop without having observed a signal, the managed set is empty
\* and main is on its way to a successful return.
C31_EndsWhenNothingLeft ==
    /\ NumEnabled = 0 => pc \in {"startup", "done"}
    /\ pc = "loop" => agents # << >>
    /\ (LoopLeft /\ ~sigObserved /\ NumEnabled > 0) =>
          /\ agents = << >>
          /\ pc \in {"shutdown", "done"}

\* `config.agents.into_iter().filter(|a| a.enabled)`: the enabled descriptors
\* in configuration order.
EnabledSeq == SelectSeq(config, LAMBDA a : a.enabled)

\* The number of enabled descriptors the start-up loop has gone past.
Passed == Cardinality({ k \in Enabled(config) : k < startIdx })

\* C32: no spawn_agent call, process or managed entry ever bears the name of
\* a disabled descriptor; the start-up loop has spawned, once each and in
\* configuration order, every enabled descriptor it has gone past, and
\* nothing else while start-up lasts.
C32_DisabledNeverStarted ==
    /\ \A k \in 1..Len(config) :
          ~config[k].enabled =>
              /\ spawnCalls[config[k].name] = 0
              /\ \A p \in 1..Len(procs) : procs[p].name # config[k].name
              /\ \A i \in 1..Len(agents) : agents[i].name # config[k].name
    /\ Len(procs) >= Passed
    /\ \A j \in 1..Passed : Descriptor(procs[j]) = Descriptor(EnabledSeq[j])
    /\ pc = "startup" =>
          /\ Len(procs) = Passed
          /\ \A k \in Enabled(config) :
                spawnCalls[config[k].name] = (IF k < startIdx THEN 1 ELSE 0)

\* Start-up of a configuration with a disabled descriptor between two enabled
\* ones is over, and an agent has since been restarted.
C32_Witness ==
    /\ pc = "loop"
    /\ NumEnabled = 2
    /\ \E k \in 1..Len(config) : ~config[k].enabled
    /\ Len(procs) > NumEnabled
    /\ respawned # {}

(***************************************************************************)
(* Properties of the interactive client's requests.                        *)
(***************************************************************************)
\* C33: a request of the client that is waiting for its reply is on a topic
\* that a running agent is subscribed to, and no request of the client ends
\* for lack of a responder.
C33_RequestsReachResponder ==
    \A t \in ClientTopics :
        /\ creq[t] = "pending" => Responders(t) # {}
        /\ creq[t] # "failed"

(***************************************************************************)
(* Properties of the gateway's configuration state.                        *)
(***************************************************************************)
\* C34: each field of the gateway state holds the value of the latest valid
\* update that supplied it, or nothing if none did (so an update leaves the
\* fields it omits, and an undeserializable one leaves every field, as they
\* were); and merging the update taken last a second time changes nothing.
C34_ConfigMerge ==
    /\ \A f \in Fields : gstate[f] = glast[f]
    /\ (gcfg # << >> /\ gcfg[1].valid) =>
          /\ MergeConfig(gcfg[1].cfg, gstate) = gstate
          /\ \A f \in Fields : gcfg[1].cfg[f] # None => gstate[f] = gcfg[1].cfg[f]

\* The latest update supplied a temperature and omitted the provider, which
\* an earlier update had set.
C34_Witness ==
    /\ gcfg # << >>
    /\ gcfg[1].valid
    /\ gcfg[1].cfg.provider = None
    /\ gcfg[1].cfg.temperature = "t2"
    /\ gstate.provider = "groq"
    /\ gstate.temperature = "t2"

\* The step takes request f from its subscription.
Received(f) == f \in gflight' /\ f \notin gflight

\* The step is the end of the task serving request f.
Served(f) == f \in gflight /\ f \notin gflight'

\* C35: a request is given, when it is taken, the state then in force as its
\* snapshot; a configuration update changes no request in flight and no
\* result; and the task of a request computes its result from the request's
\* own snapshot, whatever the state has become.
C35_SnapshotAtReceipt ==
    [][ /\ \A f \in gflight' : Received(f) => (f.state = gstate /\ gstate' = gstate)
        /\ gstate' # gstate => (gflight' = gflight /\ gserved' = gserved)
        /\ \A f \in gflight :
              Served(f) =>
                  gserved' = << [kind |-> f.kind, req |-> f.req, state |-> f.state,
                                 with |-> Serve(f.kind, f.req, f.state)] >> ]_vars

\* A request was served from its snapshot after an update, taken while the
\* request was in flight, had changed the state: the live state would have
\* given another result.
C35_Witness ==
    /\ gserved # << >>
    /\ gcfg # << >>
    /\ gserved[1].state # gstate
    /\ gserved[1].with # Serve(gserved[1].kind, gserved[1].req, gstate)
    /\ gserved[1].with = Serve(gserved[1].kind, gserved[1].req, gserved[1].state)
====
